---- MODULE Spec2Model ----
(***************************************************************************)
(* Model of src/main.py: a FastAPI service with two static routes, the     *)
(* database probe GET /test and the chat relay POST /api/chat.             *)
(*                                                                         *)
(* One request is in flight at a time (the service keeps no cross-request  *)
(* state, so interleaving requests adds nothing).  pc is the position of   *)
(* the request inside its handler.  Python str values are TLA+ strings;    *)
(* an Optional value is the empty tuple (None) or a one-element tuple.     *)
(***************************************************************************)
EXTENDS Integers, Sequences, FiniteSets, TLC

\* ------------------------------------------------------------------ bounds

MaxMsgs == 3
MaxBlocks == 2

\* --------------------------------------------------------- python helpers

None == <<>>
Some(v) == <<v>>

\* bool(x) of an Optional[str]: None and "" are falsy.
Truthy(o) == o # None /\ o[1] # ""

\* s[:n]
Slice(s, n) == IF Len(s) <= n THEN s ELSE SubSeq(s, 1, n)

\* s.startswith(p)
StartsWith(s, p) == Len(s) >= Len(p) /\ SubSeq(s, 1, Len(p)) = p

RECURSIVE Repeat(_, _)
Repeat(s, n) ==
    IF n = 0 THEN ""
    ELSE LET h == Repeat(s, n \div 2)
         IN  IF n % 2 = 0 THEN h \o h ELSE h \o h \o s

\* All sequences over S of length at most n.
SeqsUpTo(S, n) == UNION {[1..k -> S] : k \in 0..n}

\* ------------------------------------------------------------- constants

AURA_SYSTEM_PROMPT ==
    "You are AURA, an empathetic and emotionally intelligent mental health support chatbot.\n"
    \o "- Empathy first.\n"
    \o "- Safety and sensitivity: if user mentions self-harm or crisis, encourage immediate help (988 in U.S.) with warm concern.\n"
    \o "- No diagnosis or medication advice.\n"
    \o "- Offer brief, evidence-based coping tools (breathing, grounding, CBT reframing, journaling, mindfulness).\n"
    \o "- Warm, calm, non-judgmental tone.\n"
    \o "- Mirror user's tone while guiding toward safety and constructive coping."

FallbackReply == "I'm here with you. How can I support you right now?"

Model == "claude-3-5-sonnet-latest"

\* ChatRequest field defaults; temperature is kept in tenths (0.7 -> 7).
DefaultMaxTokens == 512
DefaultTemperature == 7

\* Slices of exception texts.
ProbeErrLen == 50
ApiErrLen == 200

Roles == {"user", "assistant", "system"}

\* ------------------------------------------------------- request bodies

\* A JSON value of a request body: a tagged record.  An omitted field is
\* the value Absent.
JStr(s) == [t |-> "str", s |-> s, n |-> 0]
JInt(n) == [t |-> "int", s |-> "", n |-> n]
Absent == [t |-> "absent", s |-> "", n |-> 0]

Contents == {"", "a"}
SystemContents == {"", "a", "b"}

\* The messages a body may carry: every well-formed one, one with a role
\* outside the Literal, one without role, one without content.
GoodMessages ==
    {[role |-> JStr(r), content |-> JStr(c)] : r \in {"user", "assistant"}, c \in Contents}
    \cup {[role |-> JStr("system"), content |-> JStr(c)] : c \in SystemContents}
BadMessages ==
    { [role |-> JStr("tool"), content |-> JStr("a")],
      [role |-> Absent, content |-> JStr("a")],
      [role |-> JStr("user"), content |-> Absent] }
RawMessages == GoodMessages \cup BadMessages

\* (max_tokens, temperature) as sent: both omitted, both given, or
\* max_tokens of the wrong type.
RawOptions ==
    { <<Absent, Absent>>, <<JInt(64), JInt(2)>>, <<JStr("many"), Absent>> }

\* messages is either omitted or a JSON list.
RawBodies ==
    { [messages |-> Some(ms), max_tokens |-> o[1], temperature |-> o[2]] :
        ms \in SeqsUpTo(RawMessages, MaxMsgs), o \in RawOptions }
    \cup
    { [messages |-> None, max_tokens |-> o[1], temperature |-> o[2]] :
        o \in RawOptions }

\* ------------------------------------------- pydantic models (validation)

\* Faulty variant: the role is any string.
ValidMessage_AnyRole(m) ==
    /\ m.role.t = "str"
    /\ m.content.t = "str"

\* ChatMessage: role is Literal["user", "assistant", "system"], content is
\* str; both are required.
ValidMessage(m) ==
    /\ m.role.t = "str" /\ m.role.s \in Roles
    /\ m.content.t = "str"

\* Faulty variant: messages has no default, so a body without it is invalid.
ValidBody_MessagesRequired(b) ==
    /\ b.messages # None
    /\ \A i \in 1..Len(b.messages[1]) : ValidMessage(b.messages[1][i])
    /\ b.max_tokens.t \in {"absent", "int"}
    /\ b.temperature.t \in {"absent", "int"}

\* ChatRequest: messages defaults to the empty list, max_tokens to 512,
\* temperature to 0.7; a field that is present must have its type.
ValidBody(b) ==
    /\ b.messages # None =>
          \A i \in 1..Len(b.messages[1]) : ValidMessage(b.messages[1][i])
    /\ b.max_tokens.t \in {"absent", "int"}
    /\ b.temperature.t \in {"absent", "int"}

\* The fields the validation reports, as (index of the message or 0, field).
ValidationErrors(b) ==
    (IF b.messages = None THEN {}
     ELSE { <<i, f>> \in (1..Len(b.messages[1])) \X {"role", "content"} :
              \/ f = "role" /\ ~(b.messages[1][i].role.t = "str"
                                 /\ b.messages[1][i].role.s \in Roles)
              \/ f = "content" /\ b.messages[1][i].content.t # "str" })
    \cup (IF b.max_tokens.t \in {"absent", "int"} THEN {} ELSE {<<0, "max_tokens">>})
    \cup (IF b.temperature.t \in {"absent", "int"} THEN {} ELSE {<<0, "temperature">>})

ChatMessage(m) == [role |-> m.role.s, content |-> m.content.s]

\* The ChatRequest built from a valid body.
ChatRequest(b) ==
    [ messages |->
        IF b.messages = None THEN <<>>
        ELSE [i \in 1..Len(b.messages[1]) |-> ChatMessage(b.messages[1][i])],
      max_tokens |-> IF b.max_tokens.t = "absent" THEN DefaultMaxTokens ELSE b.max_tokens.n,
      temperature |-> IF b.temperature.t = "absent" THEN DefaultTemperature ELSE b.temperature.n ]

\* ------------------------------------------------- chat relay: pure parts

\* Faulty variant: a later system message goes in front of the earlier ones.
ConvertStep_Prepends(acc, m) ==
    IF m.role = "system"
    THEN [ acc EXCEPT !.system_override =
             IF Truthy(acc.system_override)
             THEN Some(m.content \o "\n" \o acc.system_override[1])
             ELSE Some(m.content) ]
    ELSE [ acc EXCEPT !.user_assistant_messages =
             Append(@, [role |-> m.role, content |-> m.content]) ]

\* One iteration of the loop over payload.messages, on the pair
\* (user_assistant_messages, system_override).
ConvertStep(acc, m) ==
    IF m.role = "system"
    THEN [ acc EXCEPT !.system_override =
             IF Truthy(acc.system_override)
             THEN Some(acc.system_override[1] \o "\n" \o m.content)
             ELSE Some(m.content) ]
    ELSE [ acc EXCEPT !.user_assistant_messages =
             Append(@, [role |-> m.role, content |-> m.content]) ]

RECURSIVE ConvertFrom(_, _, _)
ConvertFrom(acc, msgs, i) ==
    IF i > Len(msgs) THEN acc ELSE ConvertFrom(ConvertStep(acc, msgs[i]), msgs, i + 1)

\* The whole loop, from its initial values.
Convert(msgs) ==
    ConvertFrom([user_assistant_messages |-> <<>>, system_override |-> None], msgs, 1)

\* Faulty variant: the caller's system text replaces the persona prompt.
SystemText_OverrideOnly(system_override) ==
    IF Truthy(system_override) THEN system_override[1] ELSE AURA_SYSTEM_PROMPT

\* system_text
SystemText(system_override) ==
    IF Truthy(system_override)
    THEN AURA_SYSTEM_PROMPT \o "\n\n" \o system_override[1]
    ELSE AURA_SYSTEM_PROMPT

\* Faulty variant: no synthetic turn.
TurnsOrHello_NoDefault(turns) == turns

\* messages=user_assistant_messages or [{"role": "user", "content": "Hello"}]
TurnsOrHello(turns) ==
    IF turns # <<>> THEN turns ELSE <<[role |-> "user", content |-> "Hello"]>>

\* Faulty variant: the join takes the text of every block.
RECURSIVE JoinText_NoFilter(_)
JoinText_NoFilter(blocks) ==
    IF blocks = <<>> THEN ""
    ELSE Head(blocks).text \o JoinText_NoFilter(Tail(blocks))

\* "".join(block.text for block in result.content if block.type == "text")
RECURSIVE JoinText(_)
JoinText(blocks) ==
    IF blocks = <<>> THEN ""
    ELSE (IF Head(blocks).type = "text" THEN Head(blocks).text ELSE "")
         \o JoinText(Tail(blocks))

\* reply_text, with the fallback for an empty join.
ReplyText(blocks) ==
    IF JoinText(blocks) = "" THEN FallbackReply ELSE JoinText(blocks)

\* --------------------------------------------------- external outcomes

\* What the process environment may hold for a variable.
ApiKeys == {None, Some(""), Some("sk-test")}
DbUrls == {None, Some("mongodb://localhost")}
DbNames == {None, Some("appdb")}

\* Texts of the exceptions the collaborators raise; the long ones exceed
\* the slices the handlers take of them.
SdkImportErrors == {"No module named 'anthropic'"}
ClientErrors == {"Client.__init__() got an unexpected keyword argument 'proxies'"}
ApiErrors == {"Connection error.", Repeat("x", ApiErrLen + 1)}
ProbeErrors == {"auth failed", Repeat("y", ProbeErrLen + 1)}

\* result.content: typed blocks.  The block of another type carries a text
\* attribute too, so that skipping it shows.
Blocks ==
    { [type |-> "text", text |-> "A"], [type |-> "text", text |-> "B"],
      [type |-> "text", text |-> ""], [type |-> "image", text |-> "X"] }
Contentses == SeqsUpTo(Blocks, MaxBlocks)

\* Collection names a handle may list: none, one, one more than are shown.
MaxListed == 10
ManyNames == [i \in 1..(MaxListed + 1) |-> "c" \o ToString(i)]
CollectionLists == { <<>>, <<"users">>, ManyNames }

\* What `from database import db` may bind: None, or a handle that has a
\* name attribute or does not.
Handles == { [has_name |-> TRUE, name |-> "appdb"], [has_name |-> FALSE, name |-> ""] }

\* ------------------------------------------------------------------ state

VARIABLES
    env,        \* os.environ, fixed at process start
    route,      \* method and path of the request in flight
    pc,         \* position of the request in flight
    exc,        \* text of the exception a collaborator raised (Optional)
    raw,        \* request body of POST /api/chat, as received
    payload,    \* the validated ChatRequest (Optional)
    api_key,    \* chat_with_claude: api_key
    conv,       \* chat_with_claude: user_assistant_messages, system_override
    system_text,\* chat_with_claude: system_text (Optional)
    attempted,  \* steps of the relay that have run for this request
    calls,      \* arguments of client.messages.create, one entry per call
    db,         \* test_database: db (Optional handle)
    response,   \* test_database: response
    http        \* the HTTP response sent

vars == <<env, route, pc, exc, raw, payload, api_key, conv, system_text, attempted, calls,
          db, response, http>>

NoBody == [messages |-> None, max_tokens |-> Absent, temperature |-> Absent]
NoConv == [user_assistant_messages |-> <<>>, system_override |-> None]
NoResponse == [status |-> 0, body |-> [kind |-> "none"]]

\* The dict test_database starts from.
InitialReport ==
    [ backend |-> "Running",
      database |-> "Not Available",
      database_url |-> None,
      database_name |-> None,
      connection_status |-> "Not Connected",
      collections |-> <<>> ]

Init ==
    /\ env \in [ ANTHROPIC_API_KEY : ApiKeys, DATABASE_URL : DbUrls, DATABASE_NAME : DbNames ]
    /\ route = "none"
    /\ pc = "idle"
    /\ exc = None
    /\ raw = NoBody
    /\ payload = None
    /\ api_key = None
    /\ conv = NoConv
    /\ system_text = None
    /\ attempted = {}
    /\ calls = <<>>
    /\ db = None
    /\ response = InitialReport
    /\ http = NoResponse

\* The locals of a finished request are gone when the next one starts.
Fresh ==
    /\ route' = "none"
    /\ exc' = None
    /\ raw' = NoBody
    /\ payload' = None
    /\ api_key' = None
    /\ conv' = NoConv
    /\ system_text' = None
    /\ attempted' = {}
    /\ calls' = <<>>
    /\ db' = None
    /\ response' = InitialReport
    /\ http' = NoResponse

\* HTTPException(status_code=500, detail=...)
HTTPException(detail) == [status |-> 500, body |-> [kind |-> "detail", detail |-> detail]]

\* An exception no handler catches: the framework answers 500 with a fixed
\* plain text.
Unhandled == [status |-> 500, body |-> [kind |-> "text", text |-> "Internal Server Error"]]

\* The 422 the framework answers to a body the model rejects.
Unprocessable(b) ==
    [status |-> 422, body |-> [kind |-> "errors", errors |-> ValidationErrors(b)]]

Ok(body) == [status |-> 200, body |-> body]

\* ------------------------------------------------------ static routes

\* GET /
read_root ==
    /\ pc = "idle"
    /\ route' = "GET /"
    /\ pc' = "done"
    /\ http' = Ok([kind |-> "message", message |-> "Hello from FastAPI Backend!"])
    /\ UNCHANGED <<env, exc, raw, payload, api_key, conv, system_text, attempted, calls,
                   db, response>>

\* GET /api/hello
hello ==
    /\ pc = "idle"
    /\ route' = "GET /api/hello"
    /\ pc' = "done"
    /\ http' = Ok([kind |-> "message", message |-> "Hello from the backend API!"])
    /\ UNCHANGED <<env, exc, raw, payload, api_key, conv, system_text, attempted, calls,
                   db, response>>

\* ---------------------------------------------------------- GET /test

\* The report labels; the source prefixes each with a pictograph, left out
\* here.
ProbeNotFound == "Database module not found (run enable-database first)"
ProbeError(e) == "Error: " \o Slice(e, ProbeErrLen)
ProbeNotInitialized == "Available but not initialized"
ProbeEnumError(e) == "Connected but Error: " \o Slice(e, ProbeErrLen)

\* The four assignments made once db is not None.
MarkAvailable(r, h) ==
    [ r EXCEPT !.database = "Available",
               !.database_url = Some("Configured"),
               !.database_name = Some(IF h.has_name THEN h.name ELSE "Connected"),
               !.connection_status = "Connected" ]

\* The two assignments after the try statement.
CheckEnv(r, e) ==
    [ r EXCEPT !.database_url = Some(IF Truthy(e.DATABASE_URL) THEN "Set" ELSE "Not Set"),
               !.database_name = Some(IF Truthy(e.DATABASE_NAME) THEN "Set" ELSE "Not Set") ]

\* The request arrives and response gets its defaults.
TestStart ==
    /\ pc = "idle"
    /\ route' = "GET /test"
    /\ pc' = "t_import"
    /\ response' = InitialReport
    /\ UNCHANGED <<env, exc, raw, payload, api_key, conv, system_text, attempted, calls,
                   db, http>>

\* from database import db: the module is missing.
TestImportMissing ==
    /\ pc = "t_import"
    /\ exc' = Some("No module named 'database'")
    /\ response' = [response EXCEPT !.database = ProbeNotFound]
    /\ pc' = "t_env"
    /\ UNCHANGED <<env, route, raw, payload, api_key, conv, system_text, attempted, calls,
                   db, http>>

\* from database import db: the import raises something else.
TestImportRaises ==
    /\ pc = "t_import"
    /\ \E e \in ProbeErrors :
         /\ exc' = Some(e)
         /\ response' = [response EXCEPT !.database = ProbeError(e)]
    /\ pc' = "t_env"
    /\ UNCHANGED <<env, route, raw, payload, api_key, conv, system_text, attempted, calls,
                   db, http>>

\* The module is there and db is None.
TestNotInitialized ==
    /\ pc = "t_import"
    /\ response' = [response EXCEPT !.database = ProbeNotInitialized]
    /\ pc' = "t_env"
    /\ UNCHANGED <<env, route, exc, raw, payload, api_key, conv, system_text, attempted, calls,
                   db, http>>

\* The module is there and db is a handle.
TestHandle ==
    /\ pc = "t_import"
    /\ \E h \in Handles :
         /\ db' = Some(h)
         /\ response' = MarkAvailable(response, h)
    /\ pc' = "t_enum"
    /\ UNCHANGED <<env, route, exc, raw, payload, api_key, conv, system_text, attempted, calls, http>>

\* db.list_collection_names() returns.
TestEnumerateOk ==
    /\ pc = "t_enum"
    /\ \E collections \in CollectionLists :
         response' = [response EXCEPT !.collections = Slice(collections, MaxListed),
                                      !.database = "Connected & Working"]
    /\ pc' = "t_env"
    /\ UNCHANGED <<env, route, exc, raw, payload, api_key, conv, system_text, attempted, calls,
                   db, http>>

\* Faulty variant: the inner try statement is gone and the exception leaves the
\* handler.
TestEnumerateRaises_Propagates ==
    /\ pc = "t_enum"
    /\ \E e \in ProbeErrors : exc' = Some(e)
    /\ http' = Unhandled
    /\ pc' = "done"
    /\ UNCHANGED <<env, route, raw, payload, api_key, conv, system_text, attempted, calls,
                   db, response>>

\* db.list_collection_names() raises.
TestEnumerateRaises ==
    /\ pc = "t_enum"
    /\ \E e \in ProbeErrors :
         /\ exc' = Some(e)
         /\ response' = [response EXCEPT !.database = ProbeEnumError(e)]
    /\ pc' = "t_env"
    /\ UNCHANGED <<env, route, raw, payload, api_key, conv, system_text, attempted, calls,
                   db, http>>

\* The environment check and the return.
TestReturn ==
    /\ pc = "t_env"
    /\ response' = CheckEnv(response, env)
    /\ http' = Ok([kind |-> "report", report |-> response'])
    /\ pc' = "done"
    /\ UNCHANGED <<env, route, exc, raw, payload, api_key, conv, system_text, attempted, calls, db>>

\* ------------------------------------------------------ POST /api/chat

\* A body arrives.
PostChat ==
    /\ pc = "idle"
    /\ route' = "POST /api/chat"
    /\ \E b \in RawBodies : raw' = b
    /\ pc' = "validate"
    /\ UNCHANGED <<env, exc, payload, api_key, conv, system_text, attempted, calls,
                   db, response, http>>

\* The framework builds payload: ChatRequest from the body, or answers 422
\* without calling the handler.
Validate ==
    /\ pc = "validate"
    /\ IF ValidBody(raw)
       THEN /\ payload' = Some(ChatRequest(raw))
            /\ pc' = "getenv"
            /\ http' = http
       ELSE /\ payload' = payload
            /\ pc' = "done"
            /\ http' = Unprocessable(raw)
    /\ UNCHANGED <<env, route, exc, raw, api_key, conv, system_text, attempted, calls, db, response>>

\* Faulty variant: only an unset variable counts as missing.
KeyMissing_NoneOnly(k) == k = None

\* not api_key
KeyMissing(k) == ~Truthy(k)

\* api_key = os.getenv(...); 500 if it is not set.
CheckApiKey ==
    /\ pc = "getenv"
    /\ api_key' = env.ANTHROPIC_API_KEY
    /\ attempted' = attempted \cup {"getenv"}
    /\ IF KeyMissing(env.ANTHROPIC_API_KEY)
       THEN /\ http' = HTTPException("ANTHROPIC_API_KEY not set on server")
            /\ pc' = "done"
       ELSE /\ http' = http
            /\ pc' = "import"
    /\ UNCHANGED <<env, route, exc, raw, payload, conv, system_text, calls, db, response>>

\* from anthropic import Anthropic succeeds.
ImportSdkOk ==
    /\ pc = "import"
    /\ attempted' = attempted \cup {"import"}
    /\ pc' = "construct"
    /\ UNCHANGED <<env, route, exc, raw, payload, api_key, conv, system_text, calls, db, response, http>>

\* from anthropic import Anthropic raises.
ImportSdkRaises ==
    /\ pc = "import"
    /\ attempted' = attempted \cup {"import"}
    /\ \E e \in SdkImportErrors :
         /\ exc' = Some(e)
         /\ http' = HTTPException("Anthropic SDK not available: " \o e)
    /\ pc' = "done"
    /\ UNCHANGED <<env, route, raw, payload, api_key, conv, system_text, calls, db, response>>

\* client = Anthropic(api_key=api_key) returns.
ConstructOk ==
    /\ pc = "construct"
    /\ attempted' = attempted \cup {"construct"}
    /\ pc' = "convert"
    /\ UNCHANGED <<env, route, exc, raw, payload, api_key, conv, system_text, calls, db, response, http>>

\* client = Anthropic(api_key=api_key) raises: no try statement encloses it.
ConstructRaises ==
    /\ pc = "construct"
    /\ attempted' = attempted \cup {"construct"}
    /\ \E e \in ClientErrors :
         /\ exc' = Some(e)
         /\ http' = Unhandled
    /\ pc' = "done"
    /\ UNCHANGED <<env, route, raw, payload, api_key, conv, system_text, calls, db, response>>

\* The loop over payload.messages and the composition of system_text.
ConvertMessages ==
    /\ pc = "convert"
    /\ conv' = Convert(payload[1].messages)
    /\ system_text' = Some(SystemText(conv'.system_override))
    /\ pc' = "create"
    /\ UNCHANGED <<env, route, exc, raw, payload, api_key, attempted, calls, db, response, http>>

\* The keyword arguments of client.messages.create.
CreateArgs ==
    [ model |-> Model,
      max_tokens |-> payload[1].max_tokens,
      temperature |-> payload[1].temperature,
      system |-> system_text[1],
      messages |-> TurnsOrHello(conv.user_assistant_messages) ]

\* client.messages.create returns content blocks.
CreateOk ==
    /\ pc = "create"
    /\ attempted' = attempted \cup {"create"}
    /\ calls' = Append(calls, CreateArgs)
    /\ \E content \in Contentses :
         http' = Ok([kind |-> "reply", reply |-> ReplyText(content), content |-> content])
    /\ pc' = "done"
    /\ UNCHANGED <<env, route, exc, raw, payload, api_key, conv, system_text, db, response>>

\* client.messages.create raises.
CreateRaises ==
    /\ pc = "create"
    /\ attempted' = attempted \cup {"create"}
    /\ calls' = Append(calls, CreateArgs)
    /\ \E e \in ApiErrors :
         /\ exc' = Some(e)
         /\ http' = HTTPException("Claude API error: " \o Slice(e, ApiErrLen))
    /\ pc' = "done"
    /\ UNCHANGED <<env, route, raw, payload, api_key, conv, system_text, db, response>>

\* The response is out; the service waits for the next request.
NextRequest ==
    /\ pc = "done"
    /\ pc' = "idle"
    /\ Fresh
    /\ UNCHANGED env

Next ==
    \/ read_root
    \/ hello
    \/ TestStart
    \/ TestImportMissing
    \/ TestImportRaises
    \/ TestNotInitialized
    \/ TestHandle
    \/ TestEnumerateOk
    \/ TestEnumerateRaises
    \/ TestReturn
    \/ PostChat
    \/ Validate
    \/ CheckApiKey
    \/ ImportSdkOk
    \/ ImportSdkRaises
    \/ ConstructOk
    \/ ConstructRaises
    \/ ConvertMessages
    \/ CreateOk
    \/ CreateRaises
    \/ NextRequest

Spec == Init /\ [][Next]_vars

\* ------------------------------------------------------------ properties

\* Vocabulary of the properties, stated on the request as received and on
\* what went out, apart from the handler's own loop.
SystemEntries(msgs) == SelectSeq(msgs, LAMBDA m : m.role = "system")
TurnEntries(msgs) == SelectSeq(msgs, LAMBDA m : m.role \in {"user", "assistant"})

\* contents of msgs[1..n] joined by "\n"
RECURSIVE JoinLines(_, _)
JoinLines(msgs, n) ==
    IF n = 0 THEN ""
    ELSE IF n = 1 THEN msgs[1].content
    ELSE JoinLines(msgs, n - 1) \o "\n" \o msgs[n].content

\* msgs without its leading entries of empty content
RECURSIVE DropLeadingEmpty(_)
DropLeadingEmpty(msgs) ==
    IF msgs = <<>> \/ Head(msgs).content # "" THEN msgs ELSE DropLeadingEmpty(Tail(msgs))

\* texts of blocks[1..n], concatenated
RECURSIVE Concat(_, _)
Concat(blocks, n) == IF n = 0 THEN "" ELSE Concat(blocks, n - 1) \o blocks[n].text

Contains(s, sub) ==
    \E i \in 1..(Len(s) - Len(sub) + 1) : SubSeq(s, i, i + Len(sub) - 1) = sub

InChat == route = "POST /api/chat"
InProbe == route = "GET /test"
NoCredential == env.ANTHROPIC_API_KEY \in {None, Some("")}
RelaySteps == {"import", "construct", "create"}

\* C1: the system text of every external call begins with the persona
\* prompt, whatever the messages of the request.
C1_PersonaFirst ==
    \A i \in 1..Len(calls) : StartsWith(calls[i].system, AURA_SYSTEM_PROMPT)

\* A call went out for a request that carries system text of its own.
C1_Witness ==
    /\ calls # <<>>
    /\ SystemEntries(payload[1].messages) # <<>>
    /\ calls[1].system # AURA_SYSTEM_PROMPT

\* C2, as stated: with one or more system entries, whatever their content,
\* the system text is the persona prompt, "\n\n", and all their contents
\* joined by "\n"; with none it is the persona prompt.
C2_AllSystemJoined ==
    \A i \in 1..Len(calls) :
        LET sys == SystemEntries(payload[1].messages)
        IN  calls[i].system =
              IF sys # <<>>
              THEN AURA_SYSTEM_PROMPT \o "\n\n" \o JoinLines(sys, Len(sys))
              ELSE AURA_SYSTEM_PROMPT

\* C2, amended: the system entries count from the first one of non-empty
\* content on. If there is one, the system text is the persona prompt,
\* "\n\n", and the contents of that entry and of every later system entry
\* joined by "\n" in order; if there is none (no system entry, or empty ones
\* only), the system text is the persona prompt.
C2_JoinedFromFirstNonEmpty ==
    \A i \in 1..Len(calls) :
        LET sys == DropLeadingEmpty(SystemEntries(payload[1].messages))
        IN  calls[i].system =
              IF sys # <<>>
              THEN AURA_SYSTEM_PROMPT \o "\n\n" \o JoinLines(sys, Len(sys))
              ELSE AURA_SYSTEM_PROMPT

\* A call went out for a request whose first system entry is empty and
\* whose later ones are not all empty.
C2_Witness ==
    /\ calls # <<>>
    /\ LET sys == SystemEntries(payload[1].messages)
       IN  /\ Len(sys) >= 2
           /\ sys[1].content = ""
           /\ sys[Len(sys)].content # ""

\* C3: the turns of every external call are the user and assistant messages
\* of the request, in order and unchanged, or the single turn
\* (user, "Hello") when there are none; no turn has the role system.
C3_TurnsForwarded ==
    \A i \in 1..Len(calls) :
        LET turns == TurnEntries(payload[1].messages)
        IN  /\ calls[i].messages =
                 IF turns # <<>> THEN turns ELSE <<[role |-> "user", content |-> "Hello"]>>
            /\ \A j \in 1..Len(calls[i].messages) : calls[i].messages[j].role # "system"

\* A call went out for a request that has system entries only.
C3_Witness ==
    /\ calls # <<>>
    /\ payload[1].messages # <<>>
    /\ TurnEntries(payload[1].messages) = <<>>
    /\ calls[1].messages = <<[role |-> "user", content |-> "Hello"]>>

\* C4: the reply is the texts of the text blocks, concatenated in order,
\* or the fallback message when that is empty; a 200 of the chat route
\* never carries an empty reply.
C4_ReplyFromTextBlocks ==
    /\ http.body.kind = "reply" =>
         LET texts == SelectSeq(http.body.content, LAMBDA b : b.type = "text")
             joined == Concat(texts, Len(texts))
         IN  /\ http.body.reply = (IF joined = "" THEN FallbackReply ELSE joined)
             /\ http.body.reply # ""
    /\ InChat /\ http.status = 200 => http.body.kind = "reply"

\* A reply came back for a block of another type followed by the text
\* block "B": the first was skipped.
C4_Witness ==
    /\ http.body.kind = "reply"
    /\ Len(http.body.content) = 2
    /\ http.body.content[1].type # "text"
    /\ http.body.content[2].type = "text"
    /\ http.body.reply = "B"

\* C5: a chat request that passed validation while no credential is
\* configured ends with a 500 whose detail names ANTHROPIC_API_KEY, and
\* neither the import, the construction nor the call is attempted.
C5_NoCredential500 ==
    InChat /\ NoCredential =>
        /\ attempted \cap RelaySteps = {}
        /\ calls = <<>>
        /\ pc = "done" /\ payload # None =>
             /\ http.status = 500
             /\ http.body.kind = "detail"
             /\ Contains(http.body.detail, "ANTHROPIC_API_KEY")

\* The request ended while the variable is set to the empty string.
C5_Witness ==
    /\ InChat /\ pc = "done" /\ payload # None
    /\ env.ANTHROPIC_API_KEY = Some("")
    /\ http.status = 500

HasBadRole(b) ==
    /\ b.messages # None
    /\ \E i \in 1..Len(b.messages[1]) :
         b.messages[1][i].role.t = "str" /\ b.messages[1][i].role.s \notin Roles

\* C6: a body with a message of a role outside user, assistant, system is
\* answered 422 and no step of the handler runs, with or without a
\* credential.
C6_BadRole422 ==
    InChat /\ HasBadRole(raw) =>
        /\ attempted = {}
        /\ calls = <<>>
        /\ payload = None
        /\ pc = "done" => http.status = 422

\* Such a body was answered while no credential is configured.
C6_Witness ==
    /\ InChat /\ pc = "done" /\ HasBadRole(raw)
    /\ NoCredential
    /\ http.status = 422

OmitsMessages(b) == b.messages = None
MessageOmitsField(b) ==
    /\ b.messages # None
    /\ \E i \in 1..Len(b.messages[1]) :
         b.messages[1][i].role.t = "absent" \/ b.messages[1][i].content.t = "absent"

\* C7, as stated: a body without messages, and a body with a message
\* without role or content, is answered 422 and does not reach the handler.
C7_EveryMissingField422 ==
    InChat /\ (OmitsMessages(raw) \/ MessageOmitsField(raw)) =>
        /\ attempted = {}
        /\ pc = "done" => http.status = 422

\* C7, amended: a body with a message without role or content is answered
\* 422 and does not reach the handler; a body without messages is not
\* rejected for that: messages is the empty list and the handler runs.
C7_MissingMessageField422 ==
    /\ InChat /\ MessageOmitsField(raw) =>
         /\ attempted = {}
         /\ calls = <<>>
         /\ pc = "done" => http.status = 422
    /\ InChat /\ OmitsMessages(raw) /\ pc # "validate"
         /\ raw.max_tokens.t # "str" /\ raw.temperature.t # "str" =>
         /\ payload # None
         /\ payload[1].messages = <<>>
         /\ http.status # 422
         /\ pc = "done" => "getenv" \in attempted

\* A body with a message without content was answered while no
\* credential is configured.
C7_Witness ==
    /\ InChat /\ pc = "done" /\ NoCredential
    /\ raw.messages # None
    /\ \E i \in 1..Len(raw.messages[1]) : raw.messages[1][i].content.t = "absent"
    /\ http.status = 422

\* C8: GET /test always ends with a 200 carrying the report, and what went
\* wrong shows in its database field only: the other fields are those of
\* the same run without the failure.
C8_ProbeNeverFails ==
    InProbe =>
        /\ http.status \in {0, 200}
        /\ pc = "done" =>
             /\ http = [status |-> 200, body |-> [kind |-> "report", report |-> response]]
             /\ response.backend = "Running"
             /\ response.connection_status =
                  (IF db = None THEN "Not Connected" ELSE "Connected")
             /\ response.database_url \in {Some("Set"), Some("Not Set")}
             /\ response.database_name \in {Some("Set"), Some("Not Set")}
             /\ Len(response.collections) <= MaxListed
             /\ exc # None => response.collections = <<>>
             /\ db = None /\ exc = None => response.database = ProbeNotInitialized
             /\ db = None /\ exc # None =>
                  \/ response.database = ProbeNotFound
                  \/ response.database = "Error: " \o Slice(exc[1], ProbeErrLen)
             /\ db # None /\ exc # None =>
                  response.database = "Connected but Error: " \o Slice(exc[1], ProbeErrLen)
             /\ db # None /\ exc = None => response.database = "Connected & Working"

\* The probe returned after the enumeration of collections raised.
C8_Witness ==
    /\ InProbe /\ pc = "done"
    /\ db # None /\ exc # None
    /\ http.status = 200

\* C9, as stated: once a handle was obtained, the report that is returned
\* has the handle's name (or the marker "Connected") as database_name and
\* "Connected" as connection_status.
C9_NameInReturnedReport ==
    InProbe /\ pc = "done" /\ db # None =>
        /\ http.body.report.database_name =
             Some(IF db[1].has_name THEN db[1].name ELSE "Connected")
        /\ http.body.report.connection_status = "Connected"

\* C10, as stated: with a credential, a failed import and a failed
\* construction of the client both end with a 500 whose detail includes the
\* cause, and the call is not attempted.
C10_DependencyErrorDetail ==
    InChat /\ pc = "done" /\ ~NoCredential /\ exc # None /\ "create" \notin attempted =>
        /\ http.status = 500
        /\ http.body.kind = "detail"
        /\ Contains(http.body.detail, exc[1])
        /\ calls = <<>>

====
